---- MODULE Spec2Model ----
\* Model of the exam-submission backend (api/index.py): the three request
\* handlers submit_exam, download_batch and download_single over a blob store.
\* Strings are sequences of one-character strings, so that the code's string
\* operations (endswith, basename, split, replace, strip) are computed, not
\* assumed.  Uploaded bytes are a record [len, zip]: their length and what the
\* zipfile library makes of them.
EXTENDS Integers, Sequences, FiniteSets, TLC

\* ---------------------------------------------------------------- bounds
\* At most this many blobs are ever held by the blob store.
MaxBlobs == 3

\* ---------------------------------------------------------------- strings
DotZip == <<".", "z", "i", "p">>
SubmissionsDir == <<"s", "u", "b", "m", "i", "s", "s", "i", "o", "n", "s", "/">>
ErrorTxt == <<"_", "E", "R", "R", "O", "R", ".", "t", "x", "t">>
Whitespace == {" "}

StartsWith(s, p) ==
    /\ Len(s) >= Len(p)
    /\ SubSeq(s, 1, Len(p)) = p

\* str.endswith
EndsWith(s, suf) ==
    /\ Len(s) >= Len(suf)
    /\ SubSeq(s, Len(s) - Len(suf) + 1, Len(s)) = suf

\* the part of s after its last "/" (all of s when it has none)
AfterLastSlash(s) ==
    LET idx == {i \in 1..Len(s) : s[i] = "/"}
        last == IF idx = {} THEN 0 ELSE CHOOSE i \in idx : \A j \in idx : j <= i
    IN SubSeq(s, last + 1, Len(s))

\* os.path.basename
Basename(s) == AfterLastSlash(s)

\* the part of s before its first "/" (all of s when it has none)
BeforeFirstSlash(s) ==
    LET idx == {i \in 1..Len(s) : s[i] = "/"}
        first == IF idx = {} THEN Len(s) + 1 ELSE CHOOSE i \in idx : \A j \in idx : i <= j
    IN SubSeq(s, 1, first - 1)

\* str.replace(old, ""): every non-overlapping occurrence of the non-empty
\* string old is removed, scanning left to right
RECURSIVE Remove(_, _)
Remove(s, old) ==
    IF s = <<>> THEN <<>>
    ELSE IF StartsWith(s, old) THEN Remove(SubSeq(s, Len(old) + 1, Len(s)), old)
    ELSE <<Head(s)>> \o Remove(Tail(s), old)

\* "not s or not s.strip()"
IsBlank(s) == \A i \in 1..Len(s) : s[i] \in Whitespace

\* ---------------------------------------------------------------- bytes
MAX_FILE_SIZE == 10 * 1024 * 1024

Entry(name, data, ok) == [filename |-> name, data |-> data, ok |-> ok]

\* what zipfile.ZipFile makes of a byte string:
\*   kind "zip"         opens; reading an entry with ok = FALSE raises
\*                      (bad CRC-32), which the constructor does not detect
\*   kind "badzip"      the constructor raises zipfile.BadZipFile
\*   kind "unsupported" the constructor raises another exception
\*                      (NotImplementedError: zip file version too new)
ZipEmpty == [kind |-> "zip", entries |-> <<>>]
ZipTwo == [kind |-> "zip",
           entries |-> << Entry(<<"q", "1">>, "data1", TRUE),
                          Entry(<<"d", "/", "q", "2">>, "data2", TRUE) >>]
ZipCrc == [kind |-> "zip",
           entries |-> << Entry(<<"q", "1">>, "data3", TRUE),
                          Entry(<<"q", "2">>, "data4", FALSE),
                          Entry(<<"q", "3">>, "data5", TRUE) >>]
Corrupt == [kind |-> "badzip", entries |-> <<>>]
Unsupported == [kind |-> "unsupported", entries |-> <<>>]

Bodies == {ZipEmpty, ZipTwo, ZipCrc, Corrupt, Unsupported}
Sizes == {0, MAX_FILE_SIZE, MAX_FILE_SIZE + 1}

\* the uploads tried: the empty byte string is not an archive
Contents == {c \in [len : Sizes, zip : Bodies] : c.len = 0 => c.zip = Corrupt}

\* ---------------------------------------------------------------- inputs
ContentTypes == {"application/zip", "application/x-zip-compressed",
                 "application/octet-stream", "text/plain"}

E_a_zip == <<"E", "_", "a">> \o DotZip
E_b_zip == <<"E", "_", "b">> \o DotZip
E_c_zip == <<"E", "_", "c">> \o DotZip
F_a_zip == <<"F", "_", "a">> \o DotZip
FileNames == { <<>>, E_a_zip, E_b_zip, <<"x", "/">> \o E_c_zip, F_a_zip,
               <<"E", "_", "a", ".", "t", "x", "t">> }

K1 == <<"k", "1">>
K2 == <<"k", "2">>
Secrets == { <<>>, K1, K2 }
\* os.environ.get("DOWNLOAD_SECRET"): unset (None), or a string
EnvSecrets == { [set |-> FALSE, value |-> <<>>],
                [set |-> TRUE, value |-> <<>>],
                [set |-> TRUE, value |-> K1] }

ExamCodes == { <<>>, <<" ">>, <<"E">>, <<"F">> }
StudentIds == { <<>>, <<"a">>, <<"b">> }

\* ---------------------------------------------------------------- state
VARIABLES
    store,        \* the blob store: pathname -> stored bytes
    env_secret,   \* the process's DOWNLOAD_SECRET
    resp          \* the request being answered, with its response

vars == <<store, env_secret, resp>>

Idle == [op |-> "idle"]

Init ==
    /\ store = <<>>
    /\ env_secret \in EnvSecrets
    /\ resp = Idle

\* ---------------------------------------------------------------- submit
valid_content_types == {"application/zip", "application/x-zip-compressed",
                        "application/octet-stream"}

\* ZipOpen without the constructor's format check: any bytes open
ZipOpenUnchecked(content) ==
    IF content.zip.kind = "unsupported" THEN "Exception" ELSE "ok"

\* zipfile.ZipFile(io.BytesIO(content)).namelist()
ZipOpen(content) ==
    CASE content.zip.kind = "zip" -> "ok"
      [] content.zip.kind = "badzip" -> "BadZipFile"
      [] OTHER -> "Exception"

ContentTypeOk(ctype) == ctype \in valid_content_types

\* FilenameOk without the extension test
FilenameOkAnyName(filename) == filename # <<>>

FilenameOk(filename) == filename # <<>> /\ EndsWith(filename, DotZip)

\* TooLarge with the boundary itself refused
TooLargeInclusive(content) == content.len >= MAX_FILE_SIZE

TooLarge(content) == content.len > MAX_FILE_SIZE

IsEmpty(content) == content.len = 0

\* Validate with the filename looked at before the content type
ValidateNameFirst(ctype, filename, content) ==
    IF ~(filename # <<>> /\ EndsWith(filename, DotZip))
    THEN [status |-> 400, detail |-> "Invalid filename"]
    ELSE IF ctype \notin valid_content_types
    THEN [status |-> 400, detail |-> "Invalid file type"]
    ELSE IF content.len > MAX_FILE_SIZE THEN [status |-> 400, detail |-> "File too large"]
    ELSE IF content.len = 0 THEN [status |-> 400, detail |-> "File is empty"]
    ELSE IF content.zip.kind = "badzip" THEN [status |-> 400, detail |-> "Invalid ZIP file"]
    ELSE IF content.zip.kind = "unsupported"
    THEN [status |-> 500, detail |-> "An unexpected error occurred"]
    ELSE [status |-> 0, detail |-> ""]

\* the checks of submit_exam up to the put: the status and detail of the
\* rejection, or status 0 when the upload goes on to the store
Validate(ctype, filename, content) ==
    IF ~ContentTypeOk(ctype) THEN [status |-> 400, detail |-> "Invalid file type"]
    ELSE IF ~FilenameOk(filename) THEN [status |-> 400, detail |-> "Invalid filename"]
    ELSE IF TooLarge(content) THEN [status |-> 400, detail |-> "File too large"]
    ELSE IF IsEmpty(content) THEN [status |-> 400, detail |-> "File is empty"]
    ELSE IF ZipOpen(content) = "BadZipFile" THEN [status |-> 400, detail |-> "Invalid ZIP file"]
    ELSE IF ZipOpen(content) = "Exception" THEN [status |-> 500, detail |-> "An unexpected error occurred"]
    ELSE [status |-> 0, detail |-> ""]

BlobPath(filename) == SubmissionsDir \o Basename(filename)

\* put(blob_path, content, addRandomSuffix = False)
Put(s, path, content) ==
    [p \in DOMAIN s \cup {path} |-> IF p = path THEN content ELSE s[p]]

\* the store's URL of a blob: its base address, then the pathname
UrlBase == <<"b", ":", "/">>
Url(pathname) == UrlBase \o pathname

submit_exam ==
    /\ resp = Idle
    /\ \E ctype \in ContentTypes, filename \in FileNames, content \in Contents :
         LET v == Validate(ctype, filename, content)
             req == [op |-> "submit", content_type |-> ctype,
                     filename |-> filename, content |-> content]
         IN IF v.status # 0
            THEN /\ resp' = req @@ [status |-> v.status, detail |-> v.detail,
                                    puts |-> 0, url |-> <<>>]
                 /\ store' = store
            ELSE \E put_ok \in BOOLEAN :
                   IF put_ok
                   THEN /\ Cardinality(DOMAIN store \cup {BlobPath(filename)}) <= MaxBlobs
                        /\ store' = Put(store, BlobPath(filename), content)
                        /\ resp' = req @@ [status |-> 200, detail |-> "success",
                                           puts |-> 1, url |-> Url(BlobPath(filename))]
                   ELSE /\ store' = store
                        /\ resp' = req @@ [status |-> 500,
                                           detail |-> "Failed to save submission",
                                           puts |-> 1, url |-> <<>>]
    /\ UNCHANGED env_secret

\* ---------------------------------------------------------------- download
\* Authorized without "not download_secret": only the comparison
AuthorizedCompareOnly(download_secret, secret) ==
    download_secret.value = secret

\* Authorized with the refusal's "or" turned into "and"
AuthorizedEither(download_secret, secret) ==
    \/ download_secret.set /\ download_secret.value # <<>>
    \/ download_secret.value = secret

\* "not download_secret or download_secret != request.secret" is the refusal
Authorized(download_secret, secret) ==
    /\ download_secret.set
    /\ download_secret.value # <<>>
    /\ download_secret.value = secret

\* blob_list(options = {'prefix': prefix}): the blobs whose pathname starts
\* with the prefix, in an order the store chooses
Matching(prefix) == {p \in DOMAIN store : StartsWith(p, prefix)}

Listings(prefix) ==
    LET m == Matching(prefix)
        n == Cardinality(m)
    IN { [i \in 1..n |-> [pathname |-> f[i], url |-> Url(f[i])]] :
           f \in {g \in [1..n -> m] : \A i, j \in 1..n : g[i] = g[j] => i = j} }

\* the blob a URL addresses
BlobAt(url) == SubSeq(url, Len(UrlBase) + 1, Len(url))

\* the bytes of a response with no body
EmptyBytes == [len |-> 0, zip |-> Corrupt]

\* requests.get(url) and raise_for_status(): an error, or a body that is the
\* stored bytes or is not the stored bytes (here: an empty body)
FetchOutcomes(url) ==
    { [ok |-> FALSE, content |-> EmptyBytes],
      [ok |-> TRUE, content |-> store[BlobAt(url)]],
      [ok |-> TRUE, content |-> EmptyBytes] }

\* filename.replace(f"{exam_code}_", "").replace(".zip", "")
StudentId(pathname, exam_code) ==
    Remove(Remove(AfterLastSlash(pathname), exam_code \o <<"_">>), DotZip)

ErrorMsg == "Error processing submission"

\* an entry of the combined archive; src is the position in the listing of the
\* blob whose processing wrote it (kept for the properties, not in the bytes)
OutEntry(student_id, name, data, src) ==
    [path |-> student_id \o <<"/">> \o name, data |-> data, src |-> src]

\* the entries student_zf.read() returns before the first one it raises on
RECURSIVE ReadablePrefix(_)
ReadablePrefix(entries) ==
    IF entries = <<>> \/ ~Head(entries).ok THEN <<>>
    ELSE <<Head(entries)>> \o ReadablePrefix(Tail(entries))

\* the inner loop: one main_zip.writestr per entry read
CopyEntries(student_id, entries, src) ==
    [k \in 1..Len(entries) |->
        OutEntry(student_id, entries[k].filename, entries[k].data, src)]

\* the local student_id before its first assignment
Unbound == [bound |-> FALSE, value |-> <<>>]

\* one iteration of "for blob in blobs": st is the loop's state, the archive
\* so far, the local student_id, and whether an exception has left the loop
ProcessBlob(st, blob, outcome, exam_code, i) ==
    IF st.raised THEN st
    ELSE IF ~outcome.ok
    THEN \* requests.get / raise_for_status raised: student_id is the one
         \* the handler finds, that of an earlier iteration or none
         IF st.student_id.bound
         THEN [st EXCEPT !.zip = @ \o <<OutEntry(st.student_id.value, ErrorTxt, ErrorMsg, i)>>,
                         !.fetches = @ + 1]
         ELSE [st EXCEPT !.raised = TRUE, !.fetches = @ + 1]
    ELSE LET sid == StudentId(blob.pathname, exam_code)
             entries == outcome.content.zip.entries
             copied == CopyEntries(sid, ReadablePrefix(entries), i)
             failed == \/ ZipOpen(outcome.content) # "ok"
                       \/ Len(ReadablePrefix(entries)) < Len(entries)
         IN [st EXCEPT !.student_id = [bound |-> TRUE, value |-> sid],
                       !.fetches = @ + 1,
                       !.zip = IF ZipOpen(outcome.content) # "ok"
                               THEN @ \o <<OutEntry(sid, ErrorTxt, ErrorMsg, i)>>
                               ELSE IF failed
                               THEN @ \o copied \o <<OutEntry(sid, ErrorTxt, ErrorMsg, i)>>
                               ELSE @ \o copied]

RECURSIVE Aggregate(_, _, _, _, _)
Aggregate(st, blobs, outcomes, exam_code, i) ==
    IF i > Len(blobs) THEN st
    ELSE Aggregate(ProcessBlob(st, blobs[i], outcomes[i], exam_code, i),
                   blobs, outcomes, exam_code, i + 1)

LoopStart == [zip |-> <<>>, student_id |-> Unbound, raised |-> FALSE, fetches |-> 0]

BatchPrefix(exam_code) == SubmissionsDir \o exam_code \o <<"_">>

\* the response of download_batch with nothing listed, fetched or returned
BatchRefusal(secret, exam_code, status, detail, lists) ==
    [op |-> "download_batch", secret |-> secret, exam_code |-> exam_code,
     status |-> status, detail |-> detail, lists |-> lists, blobs |-> <<>>,
     outcomes |-> <<>>, fetches |-> 0, body |-> <<>>]

download_batch ==
    /\ resp = Idle
    /\ UNCHANGED <<store, env_secret>>
    /\ \E secret \in Secrets, exam_code \in ExamCodes :
         IF ~Authorized(env_secret, secret)
         THEN resp' = BatchRefusal(secret, exam_code, 401, "Unauthorized", 0)
         ELSE IF IsBlank(exam_code)
         THEN resp' = BatchRefusal(secret, exam_code, 400, "Exam code is required", 0)
         ELSE \E list_ok \in BOOLEAN :
           IF ~list_ok
           THEN resp' = BatchRefusal(secret, exam_code, 500,
                                     "Failed to create batch download", 1)
           ELSE \E blobs \in Listings(BatchPrefix(exam_code)) :
             IF blobs = <<>>
             THEN resp' = BatchRefusal(secret, exam_code, 404, "No submissions found", 1)
             ELSE \E outcomes \in {o \in [1..Len(blobs) -> UNION {FetchOutcomes(blobs[k].url) : k \in 1..Len(blobs)}] :
                                     \A k \in 1..Len(blobs) : o[k] \in FetchOutcomes(blobs[k].url)} :
               LET end == Aggregate(LoopStart, blobs, outcomes, exam_code, 1)
               IN resp' = [op |-> "download_batch", secret |-> secret,
                           exam_code |-> exam_code,
                           status |-> IF end.raised THEN 500 ELSE 200,
                           detail |-> IF end.raised
                                      THEN "Failed to create batch download"
                                      ELSE "all_submissions.zip",
                           lists |-> 1, blobs |-> blobs, outcomes |-> outcomes,
                           fetches |-> end.fetches,
                           body |-> IF end.raised THEN <<>> ELSE end.zip]

SinglePath(exam_code, student_id) ==
    SubmissionsDir \o exam_code \o <<"_">> \o student_id \o DotZip

\* "for blob in blobs: if blob.get('pathname') == blob_path": the URL of the
\* first exact match, in a sequence of at most one element
ExactMatch(blobs, blob_path) ==
    LET hits == {i \in 1..Len(blobs) : blobs[i].pathname = blob_path}
    IN IF hits = {} THEN <<>>
       ELSE <<blobs[CHOOSE i \in hits : \A j \in hits : i <= j].url>>

\* the handler of "except Exception" in download_single: a message holding
\* "not_found" is answered 404, any other 500
SingleFailure(not_found) ==
    IF not_found THEN [status |-> 404, detail |-> "Submission not found"]
    ELSE [status |-> 500, detail |-> "Failed to download submission"]

SingleResponse(secret, exam_code, student_id, status, detail, lists, fetches, body) ==
    [op |-> "download_single", secret |-> secret, exam_code |-> exam_code,
     student_id |-> student_id, status |-> status, detail |-> detail,
     lists |-> lists, fetches |-> fetches, body |-> body]

\* what a call to the store or to requests.get can do: return, raise, or
\* raise with "not_found" in the message
CallResults == {"ok", "error", "not_found"}

download_single ==
    /\ resp = Idle
    /\ UNCHANGED <<store, env_secret>>
    /\ \E secret \in Secrets, exam_code \in ExamCodes, student_id \in StudentIds :
         LET R(status, detail, lists, fetches, body) ==
                 SingleResponse(secret, exam_code, student_id, status, detail,
                                lists, fetches, body)
             blob_path == SinglePath(exam_code, student_id)
         IN
         IF ~Authorized(env_secret, secret)
         THEN resp' = R(401, "Unauthorized", 0, 0, <<>>)
         ELSE IF IsBlank(exam_code)
         THEN resp' = R(400, "Exam code is required", 0, 0, <<>>)
         ELSE IF IsBlank(student_id)
         THEN resp' = R(400, "Student ID is required", 0, 0, <<>>)
         ELSE \E listed \in CallResults :
           IF listed # "ok"
           THEN resp' = R(SingleFailure(listed = "not_found").status,
                          SingleFailure(listed = "not_found").detail, 1, 0, <<>>)
           ELSE \E blobs \in Listings(blob_path) :
             LET blob_url == ExactMatch(blobs, blob_path)
             IN IF blob_url = <<>>
                THEN resp' = R(404, "Submission not found", 1, 0, <<>>)
                ELSE \E fetched \in CallResults :
                  IF fetched # "ok"
                  THEN resp' = R(SingleFailure(fetched = "not_found").status,
                                 SingleFailure(fetched = "not_found").detail,
                                 1, 1, <<>>)
                  ELSE \E outcome \in {o \in FetchOutcomes(blob_url[1]) : o.ok} :
                         resp' = R(200, "submission", 1, 1, <<outcome.content>>)

\* the response leaves the server; the handler's locals are gone
Deliver ==
    /\ resp # Idle
    /\ resp' = Idle
    /\ UNCHANGED <<store, env_secret>>

Next ==
    \/ submit_exam
    \/ download_batch
    \/ download_single
    \/ Deliver

Spec == Init /\ [][Next]_vars

TypeOK == resp.op \in {"idle", "submit", "download_batch", "download_single"}

\* ================================================================ properties
\* The statements below are written against the specification's words, not
\* against the operators above: they name the checks, the secret and the
\* student id directly.

IsSubmit == resp.op = "submit"
IsBatch == resp.op = "download_batch"
IsDownload == resp.op \in {"download_batch", "download_single"}

Whitelist == {"application/zip", "application/x-zip-compressed",
              "application/octet-stream"}
TenMiB == 10 * 1024 * 1024

\* the four checks of the specification, on the request being answered
TypePasses == resp.content_type \in Whitelist
NamePasses == Len(resp.filename) > 0 /\ EndsWith(resp.filename, DotZip)
SizePasses == resp.content.len > 0 /\ resp.content.len <= TenMiB
FormatPasses == resp.content.zip.kind # "badzip"

\* the number of the first check that fails, 0 when all four pass
FirstFailing ==
    IF ~TypePasses THEN 1
    ELSE IF ~NamePasses THEN 2
    ELSE IF ~SizePasses THEN 3
    ELSE IF ~FormatPasses THEN 4
    ELSE 0

\* the rejection reason of each check
ReasonOf(check) ==
    CASE check = 1 -> {"Invalid file type"}
      [] check = 2 -> {"Invalid filename"}
      [] check = 3 -> IF resp.content.len = 0 THEN {"File is empty"}
                      ELSE {"File too large"}
      [] check = 4 -> {"Invalid ZIP file"}
      [] OTHER -> {}

\* C5: submission validation applies content type, filename, size, archive
\* format in this order and stops at the first failure: a request failing a
\* check is rejected (400) with the reason of the first check it fails, a
\* rejection always carries that reason, and a request is accepted (200) only
\* if all four checks pass.
C5_ValidationOrder ==
    IsSubmit =>
        /\ FirstFailing # 0 => resp.status = 400 /\ resp.detail \in ReasonOf(FirstFailing)
        /\ resp.status = 400 => FirstFailing # 0
        /\ resp.status = 200 => FirstFailing = 0

\* a rejection where a later check fails too: the earlier reason is reported
C5_Witness ==
    /\ IsSubmit
    /\ ~TypePasses /\ ~NamePasses /\ ~SizePasses /\ ~FormatPasses
    /\ resp.status = 400
    /\ resp.detail = "Invalid file type"

\* C6 as stated: bytes that are not a structurally valid archive are rejected
\* as Corrupt whatever the declared filename and content type.
C6_CorruptRegardless ==
    IsSubmit /\ ~FormatPasses =>
        resp.status = 400 /\ resp.detail = "Invalid ZIP file"

\* C6 amended: bytes that are not a structurally valid archive are always
\* rejected (400), whatever the declared filename and content type; the
\* reason is Corrupt exactly when the content-type, filename and size checks
\* pass, and otherwise is the reason of the first of those checks that fails.
C6_CorruptAfterEarlierChecks ==
    IsSubmit /\ ~FormatPasses =>
        /\ resp.status = 400
        /\ resp.puts = 0
        /\ (TypePasses /\ NamePasses /\ SizePasses) <=> resp.detail = "Invalid ZIP file"
        /\ ~(TypePasses /\ NamePasses /\ SizePasses) => resp.detail \in ReasonOf(FirstFailing)

C6_Witness ==
    /\ IsSubmit
    /\ ~FormatPasses /\ TypePasses /\ NamePasses /\ SizePasses
    /\ resp.detail = "Invalid ZIP file"

Stored == resp.status = 200 /\ FirstFailing = 0 /\ resp.puts = 1
Rejected == resp.status = 400 /\ FirstFailing # 0 /\ resp.puts = 0
StoreFailed == resp.status = 500 /\ FirstFailing = 0 /\ resp.puts = 1
\* the archive library raised something other than its format error
OpenFailed == resp.status = 500 /\ FirstFailing = 0 /\ resp.puts = 0
                 /\ resp.content.zip.kind = "unsupported"

\* a step that answers a submission without storing it leaves the store as
\* it was, and a step that stores it changes the store at its path only
StoreOnlyWhenStored ==
    resp'.op = "submit" /\ resp.op = "idle" =>
        IF resp'.status = 200
        THEN /\ DOMAIN store' = DOMAIN store \cup {SubmissionsDir \o AfterLastSlash(resp'.filename)}
             /\ \A p \in DOMAIN store :
                    p # SubmissionsDir \o AfterLastSlash(resp'.filename) => store'[p] = store[p]
             /\ store'[SubmissionsDir \o AfterLastSlash(resp'.filename)] = resp'.content
        ELSE store' = store

\* C8 as stated: every submission request ends Stored (200), Rejected (400)
\* or StoreFailed (500); put is invoked only after all checks passed and at
\* most once; a 500 is returned only when the request was validated and the
\* put failed; a request that is not stored leaves the store unchanged.
C8_ThreePaths ==
    /\ [](IsSubmit => Stored \/ Rejected \/ StoreFailed)
    /\ [][StoreOnlyWhenStored]_vars

\* C8 amended: every submission request ends Stored (200), Rejected (400),
\* StoreFailed (500, validated and the put failed) or in a 500 returned because
\* opening the uploaded bytes raised an error other than the archive-format
\* error; put is invoked only after all checks passed and at most once, never
\* in the last case; a request that is not stored leaves the store unchanged.
C8_FourPaths ==
    /\ [](IsSubmit => Stored \/ Rejected \/ StoreFailed \/ OpenFailed)
    /\ [][StoreOnlyWhenStored]_vars

\* a validated request whose put failed, with a store that holds blobs
C8_Witness ==
    /\ IsSubmit
    /\ StoreFailed
    /\ store # <<>>

\* the secret the server is configured with, as the specification has it
SecretConfigured == env_secret.set /\ Len(env_secret.value) > 0
SecretEqual == env_secret.set /\ env_secret.value = resp.secret

\* C9 as stated: on the download endpoints an unconfigured secret is answered
\* 500, not 401, and 401 is returned only when a secret is configured and the
\* supplied value differs from it.
C9_UnconfiguredIs500 ==
    IsDownload =>
        /\ ~SecretConfigured => resp.status = 500
        /\ resp.status = 401 => SecretConfigured /\ ~SecretEqual

\* C9 amended: on the download endpoints a request is answered 401 exactly
\* when the server-side secret is not configured (unset or empty) or the
\* supplied value is not exactly equal to it; an unconfigured secret is
\* answered 401, never 500.
C9_UnconfiguredIs401 ==
    IsDownload =>
        /\ resp.status = 401 <=> (~SecretConfigured \/ ~SecretEqual)
        /\ ~SecretConfigured => resp.status = 401

\* both endpoints...: an unset secret and a request that supplies the empty one
C9_Witness ==
    /\ resp.op = "download_single"
    /\ ~env_secret.set
    /\ resp.secret = <<>>
    /\ resp.status = 401

\* C10: on the download endpoints the secret check comes first: a request
\* whose secret does not equal the configured one, or that arrives when none
\* is configured, causes no list call and no fetch and returns no bytes,
\* whatever its exam code and student id; and no download request, authorized
\* or not, changes the blob store.
C10_NoAccessWithoutSecret ==
    /\ [](IsDownload /\ (~SecretConfigured \/ ~SecretEqual) =>
            /\ resp.lists = 0
            /\ resp.fetches = 0
            /\ resp.body = <<>>
            /\ resp.status \notin {200, 400, 404, 500})
    /\ [][resp'.op \in {"download_batch", "download_single"} => store' = store]_vars

\* a wrong secret with an exam code whose submissions are in the store
C10_Witness ==
    /\ IsBatch
    /\ SecretConfigured /\ ~SecretEqual
    /\ \E p \in DOMAIN store : StartsWith(p, SubmissionsDir \o resp.exam_code \o <<"_">>)
    /\ resp.status = 401
\* ---------------------------------------------------------------- batch
\* a download-batch request whose listing was obtained and is not empty
Listed == IsBatch /\ Len(resp.blobs) > 0

Sources == 1..Len(resp.blobs)

\* the student id of a source: its pathname "submissions/{examCode}_{id}.zip"
\* without the directory, the exam code and the extension
IdOf(i) ==
    SubSeq(resp.blobs[i].pathname,
           Len(SubmissionsDir) + Len(resp.exam_code) + 2,
           Len(resp.blobs[i].pathname) - Len(DotZip))

\* the source's bytes could not be obtained, or do not open as an archive
Unreadable(i) ==
    \/ ~resp.outcomes[i].ok
    \/ resp.outcomes[i].content.zip.kind # "zip"

\* the source was fetched and is an archive whose entries can all be read
Valid(i) ==
    /\ resp.outcomes[i].ok
    /\ resp.outcomes[i].content.zip.kind = "zip"
    /\ \A k \in 1..Len(resp.outcomes[i].content.zip.entries) :
           resp.outcomes[i].content.zip.entries[k].ok

\* the entries of the combined archive written for source i
EntriesOf(i) == {k \in 1..Len(resp.body) : resp.body[k].src = i}

NamespaceOfEntry(k) == BeforeFirstSlash(resp.body[k].path)

Namespaces == {NamespaceOfEntry(k) : k \in 1..Len(resp.body)}

\* C1: for every listed source that cannot be fetched or does not open as an
\* archive, the combined archive has exactly one entry of that source, at
\* {studentId}/_ERROR.txt with the student id of that source's own pathname,
\* wherever the source stands in the listing and however it failed.
C1_OneErrorEntryPerFailedSource ==
    Listed =>
        \A i \in Sources :
            Unreadable(i) =>
                /\ resp.status = 200
                /\ Cardinality(EntriesOf(i)) = 1
                /\ \A k \in EntriesOf(i) :
                       resp.body[k].path = IdOf(i) \o <<"/">> \o ErrorTxt

\* C2: a download-batch request with the correct secret and a non-empty exam
\* code whose listing was obtained and is not empty ends in 200 with the
\* combined archive, whatever sources fail to be fetched or opened.
C2_BatchAlwaysSucceeds ==
    (/\ IsBatch
     /\ SecretConfigured /\ SecretEqual
     /\ \E c \in 1..Len(resp.exam_code) : resp.exam_code[c] # " "
     /\ resp.lists = 1
     /\ Len(resp.blobs) > 0)
        => resp.status = 200

\* C3: after download-batch has processed a listing of N sources the combined
\* archive has N distinct top-level namespaces, for any mix of valid and
\* invalid sources.
C3_NamespacePerSource ==
    Listed =>
        /\ resp.status = 200
        /\ Cardinality(Namespaces) = Len(resp.blobs)

\* C4: every entry of every source that was fetched and opens as a valid
\* archive is in the combined archive at {studentId}/{originalEntryPath} with
\* its content unchanged, and every entry of the combined archive lies under
\* the namespace of the source it came from.
C4_EntriesUnderOwnNamespace ==
    Listed =>
        /\ \A i \in Sources :
               Valid(i) =>
                   \A e \in 1..Len(resp.outcomes[i].content.zip.entries) :
                       \E k \in 1..Len(resp.body) :
                           /\ resp.body[k].path =
                                  IdOf(i) \o <<"/">> \o resp.outcomes[i].content.zip.entries[e].filename
                           /\ resp.body[k].data = resp.outcomes[i].content.zip.entries[e].data
        /\ \A k \in 1..Len(resp.body) :
               NamespaceOfEntry(k) = IdOf(resp.body[k].src)
\* ---------------------------------------------------------------- what holds
\* The part of C1 the code keeps: a source that was fetched but does not open
\* as an archive gets exactly one entry, at its own {studentId}/_ERROR.txt.
FetchedBadArchiveGetsOwnMarker ==
    Listed /\ resp.status = 200 =>
        \A i \in Sources :
            resp.outcomes[i].ok /\ resp.outcomes[i].content.zip.kind # "zip" =>
                /\ Cardinality(EntriesOf(i)) = 1
                /\ \A k \in EntriesOf(i) :
                       resp.body[k].path = IdOf(i) \o <<"/">> \o ErrorTxt

\* The part of C4 the code keeps: in a combined archive that is returned, the
\* entries of a fetched, valid source are all there under its own namespace,
\* in order and unchanged, and every entry written for a fetched source lies
\* under that source's namespace.
FetchedSourcesUnderOwnNamespace ==
    Listed /\ resp.status = 200 =>
        \A i \in Sources :
            resp.outcomes[i].ok =>
                /\ \A k \in EntriesOf(i) : NamespaceOfEntry(k) = IdOf(i)
                /\ Valid(i) =>
                       /\ Cardinality(EntriesOf(i)) = Len(resp.outcomes[i].content.zip.entries)
                       /\ \A e \in 1..Len(resp.outcomes[i].content.zip.entries) :
                              \E k \in EntriesOf(i) :
                                  /\ resp.body[k].path =
                                         IdOf(i) \o <<"/">> \o resp.outcomes[i].content.zip.entries[e].filename
                                  /\ resp.body[k].data = resp.outcomes[i].content.zip.entries[e].data

\* The part of C2 the code keeps: the request fails with 500 only when the
\* first fetch failure comes before any successful fetch.
BatchFailsOnlyOnEarlyFetchFailure ==
    Listed =>
        (resp.status = 500 <=>
            \E i \in Sources :
                /\ ~resp.outcomes[i].ok
                /\ \A j \in 1..(i - 1) : ~resp.outcomes[j].ok)
====
